---- MODULE Spec2Model ----
(***************************************************************************)
(* State-machine model of the AssignmentViewer component                   *)
(* (src/src/components/student/AssignmentViewer.tsx) together with the     *)
(* external store it talks to.  Every asynchronous request of the          *)
(* component is an element of the bag `inflight`; the component's          *)
(* continuation after the `await` runs when the response arrives (Receive* *)
(* actions), in any order.  Requests on assignment_submissions are served  *)
(* by the store at some point before that (Serve* actions); the            *)
(* assignments table never changes, so what a read of it answers does not  *)
(* depend on when it is served and is chosen when the response arrives.    *)
(*                                                                         *)
(* Spec starts from the scenario of the component's documentation: one     *)
(* assignment, no submission yet.  SpecRead starts from a store that is    *)
(* already populated and follows the read path and the rendering.          *)
(***************************************************************************)
EXTENDS Naturals, Sequences, FiniteSets, Bags, TLC

VARIABLES
    courses,             \* the `courses` prop: the set of course ids of the list
    user,                \* useAuth().user: an identity or NoUser
    assignments,         \* useState: course id -> sequence of assignments
    submissions,         \* useState: sequence of submissions
    selectedAssignment,  \* useState: the assignment of the submit dialog
    submissionText,      \* useState: the text buffer, a sequence of characters
    dbAssignments,       \* table assignments of the store
    dbSubmissions,       \* table assignment_submissions of the store
    inflight,            \* bag of the requests awaiting their response
    last                 \* the last step of the component, and its toast

vars == <<courses, user, assignments, submissions, selectedAssignment,
          submissionText, dbAssignments, dbSubmissions, inflight, last>>

-----------------------------------------------------------------------------
(* Bounds *)

\* at most this many requests await their response at once
MaxInflight == 3

\* at most this many rows are ever inserted into assignment_submissions
MaxRows == 2

\* at most this many courses are in a course list the parent passes in Spec
MaxCourses == 1

-----------------------------------------------------------------------------
(* Data *)

CourseIds == {"c1", "c2"}

\* the course lists the parent passes as the `courses` prop
CourseLists == { cs \in SUBSET CourseIds : Cardinality(cs) <= MaxCourses }

Users == {"u1"}

NoUser == "nouser"

\* interface Assignment (the fields the component's logic reads)
Assignment(id, c, p) == [id |-> id, course_id |-> c, phase_number |-> p]

\* the assignments table of the documented scenario: HW1 of course c1
ScenarioAssignments == { Assignment("a1", "c1", 1) }

\* an assignments table with several courses, phases, and equal phases
PopulatedAssignments ==
    { Assignment("a1", "c1", 1), Assignment("a2", "c1", 2),
      Assignment("a3", "c2", 1), Assignment("a4", "c1", 1) }

\* useState<Assignment | null>(null)
NoAssignment == Assignment("none", "none", 0)

\* interface Submission (the fields the component's logic reads)
Submission(id, a, u, t, st) ==
    [id |-> id, assignment_id |-> a, student_id |-> u,
     submission_text |-> t, status |-> st]

\* submission.status: "pending", "graded", or any other string
Statuses == {"pending", "graded", "returned"}

\* the status a tutor gives a submission in Spec
GradedStatuses == {"graded"}

\* what the student can type into the Textarea
Texts == { <<" ">>, <<" ", "x", " ">> }

\* String.prototype.trim: strip leading, then trailing white space
RECURSIVE TrimStart(_)
TrimStart(t) ==
    IF t # <<>> /\ Head(t) = " " THEN TrimStart(Tail(t)) ELSE t

RECURSIVE TrimEnd(_)
TrimEnd(t) ==
    IF t # <<>> /\ t[Len(t)] = " " THEN TrimEnd(SubSeq(t, 1, Len(t) - 1)) ELSE t

\* a trim that strips the leading white space only (String.prototype.trimStart)
TrimLeading(t) == TrimStart(t)

Trim(t) == TrimEnd(TrimStart(t))

\* every ordering of a finite set, as sequences
RECURSIVE Orderings(_)
Orderings(S) ==
    IF S = {} THEN { <<>> }
    ELSE UNION { { <<x>> \o s : s \in Orderings(S \ {x}) } : x \in S }

-----------------------------------------------------------------------------
(* Requests *)

NoResponse == [state |-> "none", data |-> <<>>]

\* supabase.from("assignments").select("*").in("course_id", courseIds).order(...)
AssignmentsRequest(cs) ==
    [kind |-> "assignments", courseIds |-> cs, student |-> NoUser,
     row |-> <<>>, resp |-> NoResponse]

\* supabase.from("assignment_submissions").select("*").eq("student_id", user.id)
SubmissionsRequest(u) ==
    [kind |-> "submissions", courseIds |-> {}, student |-> u,
     row |-> <<>>, resp |-> NoResponse]

\* supabase.from("assignment_submissions").insert({...})
InsertRequest(a, u, t) ==
    [kind |-> "insert", courseIds |-> {}, student |-> u,
     row |-> <<[assignment_id |-> a, student_id |-> u,
                submission_text |-> t, status |-> "pending"]>>,
     resp |-> NoResponse]

\* fetchAssignments(): courseIds = courses.map(c => c.id), then the read
FetchAssignments(cs) == SetToBag({ AssignmentsRequest(cs) })

\* fetchSubmissions(): if (!user) return; then the read
FetchSubmissions(u) ==
    IF u = NoUser THEN EmptyBag ELSE SetToBag({ SubmissionsRequest(u) })

\* the effect without its condition: the reads issued on every change
EffectUnconditional(cs, u) == FetchAssignments(cs) (+) FetchSubmissions(u)

\* useEffect(() => { if (courses.length > 0 && user) {...} }, [courses, user])
Effect(cs, u) ==
    IF Cardinality(cs) > 0 /\ u # NoUser
    THEN FetchAssignments(cs) (+) FetchSubmissions(u)
    ELSE EmptyBag

\* a step of the component: the async function that ran with the outcome of
\* its await, its toast.error / toast.success, and the data it handled (the
\* rows fetchAssignments received, the row handleSubmit sent)
Step(op, toast, data) == [op |-> op, toast |-> toast, data |-> data]

\* a step of no async function: a render with its effect, a dialog event
Quiet == Step("none", "none", <<>>)

-----------------------------------------------------------------------------
(* View-model helpers *)

\* a grouping that keeps only the latest row of a course
GroupPushLatest(grouped, a) ==
    IF a.course_id \notin DOMAIN grouped
    THEN grouped @@ (a.course_id :> << a >>)
    ELSE [grouped EXCEPT ![a.course_id] = << a >>]

\* grouped[assignment.course_id].push(assignment), for one element
GroupPush(grouped, a) ==
    IF a.course_id \notin DOMAIN grouped
    THEN grouped @@ (a.course_id :> << a >>)
    ELSE [grouped EXCEPT ![a.course_id] = Append(@, a)]

\* (data || []).forEach(...) of fetchAssignments, over the rest of the data
RECURSIVE GroupFrom(_, _)
GroupFrom(grouped, data) ==
    IF data = <<>> THEN grouped
    ELSE GroupFrom(GroupPush(grouped, Head(data)), Tail(data))

\* const grouped = {}; forEach; the value given to setAssignments
Group(data) == GroupFrom(<<>>, data)

NoSubmission == Submission(0, "none", NoUser, <<>>, "none")

\* submissions.find((s) => s.assignment_id === assignmentId)
RECURSIVE Find(_, _)
Find(subs, assignmentId) ==
    IF subs = <<>> THEN NoSubmission
    ELSE IF Head(subs).assignment_id = assignmentId THEN Head(subs)
    ELSE Find(Tail(subs), assignmentId)

getSubmission(assignmentId) == Find(submissions, assignmentId)

\* assignments[courseId] || []
CourseAssignments(courseId) ==
    IF courseId \in DOMAIN assignments THEN assignments[courseId] ELSE <<>>

getAssignmentCountForCourse(courseId) == Len(CourseAssignments(courseId))

getCompletedCountForCourse(courseId) ==
    Len(SelectSeq(CourseAssignments(courseId),
                  LAMBDA a : getSubmission(a.id) # NoSubmission))

\* getStatusBadge(submission)
getStatusBadge(submission) ==
    IF submission = NoSubmission THEN "Not submitted"
    ELSE IF submission.status = "pending" THEN "Pending"
    ELSE IF submission.status = "graded" THEN "Graded"
    ELSE submission.status

\* {!submission && <Button ...> Submit}
OffersSubmit(a) == getSubmission(a.id) = NoSubmission

\* a view that offers the feedback for every submission that is not pending
OffersFeedbackUnlessPending(a) ==
    getSubmission(a.id) # NoSubmission /\ getSubmission(a.id).status # "pending"

\* {submission?.status === "graded" && <Button ...> View Feedback}
OffersFeedback(a) ==
    getSubmission(a.id) # NoSubmission /\ getSubmission(a.id).status = "graded"

\* the assignment rows rendered: courses.map(...) over assignments[course.id]
Displayed ==
    UNION { { CourseAssignments(c)[i] : i \in 1..Len(CourseAssignments(c)) } :
            c \in courses }

\* a validation that tests the text as typed, without trimming it
RejectsUntrimmed(u, sel, text) ==
    u = NoUser \/ sel = NoAssignment \/ text = <<>>

\* if (!user || !selectedAssignment || !submissionText.trim())
Rejects(u, sel, text) ==
    u = NoUser \/ sel = NoAssignment \/ Trim(text) = <<>>

-----------------------------------------------------------------------------
(* Queries of the store *)

\* rows of `assignments` with course_id in the set, ordered by phase_number
\* ascending; rows of equal phase_number come in any order
SelectAssignments(cs) ==
    { s \in Orderings({ a \in dbAssignments : a.course_id \in cs }) :
        \A i, j \in 1..Len(s) :
            i < j => s[i].phase_number <= s[j].phase_number }

\* rows of `assignment_submissions` of one student, in table order
SelectSubmissions(u) ==
    { SelectSeq(dbSubmissions, LAMBDA row : row.student_id = u) }

-----------------------------------------------------------------------------
(* Initial state: the component has mounted and its effect has run once *)

Mounted ==
    /\ courses \in CourseLists
    /\ user \in Users \cup {NoUser}
    /\ assignments = <<>>
    /\ submissions = <<>>
    /\ selectedAssignment = NoAssignment
    /\ submissionText = <<>>
    /\ inflight = Effect(courses, user)
    /\ last = Quiet

Init ==
    /\ Mounted
    /\ dbAssignments = ScenarioAssignments
    /\ dbSubmissions = <<>>

-----------------------------------------------------------------------------
(* Props and identity change: the component re-renders and the effect runs *)

SetCourses(cs) ==
    /\ BagCardinality(inflight (+) Effect(cs, user)) <= MaxInflight
    /\ courses' = cs
    /\ inflight' = inflight (+) Effect(cs, user)
    /\ last' = Quiet
    /\ UNCHANGED <<user, assignments, submissions, selectedAssignment,
                   submissionText, dbAssignments, dbSubmissions>>

SetUser(u) ==
    /\ u # user
    /\ BagCardinality(inflight (+) Effect(courses, u)) <= MaxInflight
    /\ user' = u
    /\ inflight' = inflight (+) Effect(courses, u)
    /\ last' = Quiet
    /\ UNCHANGED <<courses, assignments, submissions, selectedAssignment,
                   submissionText, dbAssignments, dbSubmissions>>

-----------------------------------------------------------------------------
(* The submit dialog *)

\* onClick={() => setSelectedAssignment(assignment)} of a row's Submit button
OpenSubmit(a) ==
    /\ a \in Displayed
    /\ OffersSubmit(a)
    /\ selectedAssignment' = a
    /\ last' = Quiet
    /\ UNCHANGED <<courses, user, assignments, submissions, submissionText,
                   dbAssignments, dbSubmissions, inflight>>

\* Cancel button, or onOpenChange(false)
CancelSubmit ==
    /\ selectedAssignment # NoAssignment
    /\ selectedAssignment' = NoAssignment
    /\ last' = Quiet
    /\ UNCHANGED <<courses, user, assignments, submissions, submissionText,
                   dbAssignments, dbSubmissions, inflight>>

\* onChange={(e) => setSubmissionText(e.target.value)}
SetSubmissionText(t) ==
    /\ selectedAssignment # NoAssignment
    /\ t # submissionText
    /\ submissionText' = t
    /\ last' = Quiet
    /\ UNCHANGED <<courses, user, assignments, submissions, selectedAssignment,
                   dbAssignments, dbSubmissions, inflight>>

\* a submit that is disabled while an insert awaits its response
SubmitRequestsWhenIdle(u, sel, text) ==
    IF Rejects(u, sel, text) \/ \E r \in BagToSet(inflight) : r.kind = "insert"
    THEN EmptyBag
    ELSE SetToBag({ InsertRequest(sel.id, u, Trim(text)) })

\* what handleSubmit issues before its await
SubmitRequests(u, sel, text) ==
    IF Rejects(u, sel, text) THEN EmptyBag
    ELSE SetToBag({ InsertRequest(sel.id, u, Trim(text)) })

\* the toast of handleSubmit before its await
SubmitToast(u, sel, text) ==
    IF Rejects(u, sel, text) THEN "Please enter your submission" ELSE "none"

\* handleSubmit, up to its await: the dialog's Submit button
HandleSubmit ==
    /\ selectedAssignment # NoAssignment
    /\ BagCardinality(inflight (+)
          SubmitRequests(user, selectedAssignment, submissionText)) <= MaxInflight
    /\ inflight' = inflight (+)
          SubmitRequests(user, selectedAssignment, submissionText)
    /\ last' = Step("handleSubmit",
                    SubmitToast(user, selectedAssignment, submissionText), <<>>)
    /\ UNCHANGED <<courses, user, assignments, submissions, selectedAssignment,
                   submissionText, dbAssignments, dbSubmissions>>

-----------------------------------------------------------------------------
(* The store *)

OkResponse(data) == [state |-> "ok", data |-> data]

ErrorResponse == [state |-> "error", data |-> <<>>]

\* the request r of the bag gets its response
Respond(r, resp) ==
    /\ inflight' = (inflight (-) SetToBag({r}))
                      (+) SetToBag({ [r EXCEPT !.resp = resp] })
    /\ last' = last

\* what a read of `assignments` can answer
AssignmentsResponses(cs) ==
    { OkResponse(data) : data \in SelectAssignments(cs) } \cup { ErrorResponse }

ServeSubmissions(r) ==
    /\ r.kind = "submissions"
    /\ r.resp.state = "none"
    /\ \/ \E data \in SelectSubmissions(r.student) : Respond(r, OkResponse(data))
       \/ Respond(r, ErrorResponse)
    /\ UNCHANGED <<courses, user, assignments, submissions, selectedAssignment,
                   submissionText, dbAssignments, dbSubmissions>>

\* the row as stored: the store assigns its id
StoredRow(row) ==
    Submission(Len(dbSubmissions) + 1, row.assignment_id, row.student_id,
               row.submission_text, row.status)

\* the insert is committed and acknowledged, rejected, or committed with the
\* acknowledgement lost on the way back (the client then sees an error)
ServeInsert(r) ==
    /\ r.kind = "insert"
    /\ r.resp.state = "none"
    /\ \/ /\ Len(dbSubmissions) < MaxRows
          /\ dbSubmissions' = Append(dbSubmissions, StoredRow(r.row[1]))
          /\ \/ Respond(r, OkResponse(<<>>))
             \/ Respond(r, ErrorResponse)
       \/ /\ dbSubmissions' = dbSubmissions
          /\ Respond(r, ErrorResponse)
    /\ UNCHANGED <<courses, user, assignments, submissions, selectedAssignment,
                   submissionText, dbAssignments>>

\* a tutor grades a pending submission (outside the component)
ExternalGrade(k, st) ==
    /\ dbSubmissions[k].status = "pending"
    /\ st # "pending"
    /\ dbSubmissions' = [dbSubmissions EXCEPT ![k].status = st]
    /\ last' = last
    /\ UNCHANGED <<courses, user, assignments, submissions, selectedAssignment,
                   submissionText, dbAssignments, inflight>>

-----------------------------------------------------------------------------
(* A response arrives: the rest of the async function runs *)

\* a fetchAssignments that drops the response to a superseded request
AssignmentsAfterUnlessStale(r, resp, old) ==
    IF resp.state = "error" \/ r.courseIds # courses THEN old ELSE Group(resp.data)

\* the value fetchAssignments leaves in `assignments` when the response to
\* request r arrives: if (error) return; else setAssignments(grouped)
AssignmentsAfter(r, resp, old) ==
    IF resp.state = "error" THEN old ELSE Group(resp.data)

\* a fetchSubmissions that returns on error as fetchAssignments does
SubmissionsAfterKeepingOnError(r, old) ==
    IF r.resp.state = "error" THEN old ELSE r.resp.data

\* the value fetchSubmissions leaves in `submissions` when the response to
\* request r arrives: setSubmissions(data || [])
SubmissionsAfter(r, old) ==
    IF r.resp.state = "error" THEN <<>> ELSE r.resp.data

\* fetchAssignments, after its await
ReceiveAssignments(r, resp) ==
    /\ r.kind = "assignments"
    /\ assignments' = AssignmentsAfter(r, resp, assignments)
    /\ inflight' = inflight (-) SetToBag({r})
    /\ last' = Step("fetchAssignments:" \o resp.state, "none", resp.data)
    /\ UNCHANGED <<courses, user, submissions, selectedAssignment,
                   submissionText, dbAssignments, dbSubmissions>>

\* fetchSubmissions, after its await
ReceiveSubmissions(r) ==
    /\ r.kind = "submissions"
    /\ r.resp.state # "none"
    /\ submissions' = SubmissionsAfter(r, submissions)
    /\ inflight' = inflight (-) SetToBag({r})
    /\ last' = Step("fetchSubmissions:" \o r.resp.state, "none", <<>>)
    /\ UNCHANGED <<courses, user, assignments, selectedAssignment,
                   submissionText, dbAssignments, dbSubmissions>>

\* what handleSubmit issues after its await: fetchSubmissions() of the
\* render that handled the click, whose `user` is the row's student
AfterInsert(r) ==
    IF r.resp.state = "error" THEN EmptyBag ELSE FetchSubmissions(r.student)

\* the toast of handleSubmit after its await
InsertToast(r) ==
    IF r.resp.state = "error" THEN "Failed to submit assignment"
    ELSE "Assignment submitted successfully!"

\* a handleSubmit that closes the dialog whatever the insert's outcome
SelectedAfterInsertClosing(r, old) == NoAssignment

\* setSelectedAssignment(null) after a successful insert
SelectedAfterInsert(r, old) ==
    IF r.resp.state = "error" THEN old ELSE NoAssignment

\* a handleSubmit that leaves the text in the buffer
TextAfterInsertKept(r, old) == old

\* setSubmissionText("") after a successful insert
TextAfterInsert(r, old) ==
    IF r.resp.state = "error" THEN old ELSE <<>>

\* handleSubmit, after its await
ReceiveInsert(r) ==
    /\ r.kind = "insert"
    /\ r.resp.state # "none"
    /\ selectedAssignment' = SelectedAfterInsert(r, selectedAssignment)
    /\ submissionText' = TextAfterInsert(r, submissionText)
    /\ inflight' = (inflight (-) SetToBag({r})) (+) AfterInsert(r)
    /\ last' = Step("handleSubmit:" \o r.resp.state, InsertToast(r), r.row)
    /\ UNCHANGED <<courses, user, assignments, submissions, dbAssignments,
                   dbSubmissions>>

-----------------------------------------------------------------------------

Next ==
    \/ \E cs \in CourseLists : SetCourses(cs)
    \/ \E u \in Users \cup {NoUser} : SetUser(u)
    \/ \E a \in Displayed : OpenSubmit(a)
    \/ CancelSubmit
    \/ \E t \in Texts : SetSubmissionText(t)
    \/ HandleSubmit
    \/ \E r \in BagToSet(inflight) : ServeSubmissions(r)
    \/ \E r \in BagToSet(inflight) : ServeInsert(r)
    \/ \E k \in 1..Len(dbSubmissions) :
          \E st \in GradedStatuses : ExternalGrade(k, st)
    \/ \E r \in BagToSet(inflight) :
          \E resp \in AssignmentsResponses(r.courseIds) : ReceiveAssignments(r, resp)
    \/ \E r \in BagToSet(inflight) : ReceiveSubmissions(r)
    \/ \E r \in BagToSet(inflight) : ReceiveInsert(r)

Spec == Init /\ [][Next]_vars

-----------------------------------------------------------------------------
(* The read path over a populated store *)

\* at most this many rows are in assignment_submissions when SpecRead starts
MaxStored == 2

\* the rows a populated assignment_submissions table holds: of this student
\* and of another, in every status
StoredRows ==
    { [assignment_id |-> a, student_id |-> u, submission_text |-> <<"x">>,
       status |-> st] :
        a \in {"a1", "a2"}, u \in Users \cup {"u2"}, st \in Statuses }

\* the tables of at most n such rows, the store numbering the rows
RECURSIVE StoredTables(_)
StoredTables(n) ==
    IF n = 0 THEN { <<>> }
    ELSE StoredTables(n - 1) \cup
         { Append(t, Submission(n, row.assignment_id, row.student_id,
                                row.submission_text, row.status)) :
             t \in { x \in StoredTables(n - 1) : Len(x) = n - 1 },
             row \in StoredRows }

InitRead ==
    /\ Mounted
    /\ dbAssignments = PopulatedAssignments
    /\ dbSubmissions \in StoredTables(MaxStored)

NextRead ==
    \/ \E cs \in SUBSET CourseIds : SetCourses(cs)
    \/ \E r \in BagToSet(inflight) : ServeSubmissions(r)
    \/ \E r \in BagToSet(inflight) :
          \E resp \in AssignmentsResponses(r.courseIds) : ReceiveAssignments(r, resp)
    \/ \E r \in BagToSet(inflight) : ReceiveSubmissions(r)

SpecRead == InitRead /\ [][NextRead]_vars

-----------------------------------------------------------------------------
(* Vocabulary of the properties *)

\* the requests a step issues: those new in the bag that await the store
IssuedRequests ==
    { r \in BagToSet(inflight' (-) inflight) : r.resp.state = "none" }

\* a step of the store: a row is written, or a request gets its response
StoreStep ==
    \/ dbSubmissions' # dbSubmissions
    \/ \E r \in BagToSet(inflight' (-) inflight) : r.resp.state # "none"

\* the requests whose response a step of the component consumes
HandledRequests == BagToSet(inflight (-) inflight')

\* the text is empty or white space only
Blank(text) == \A i \in 1..Len(text) : text[i] = " "

\* t is text without its leading and trailing white space
IsTrimOf(t, text) ==
    /\ t # <<>> => t[1] # " " /\ t[Len(t)] # " "
    /\ \E i \in 0..Len(text) :
          /\ i + Len(t) <= Len(text)
          /\ t = SubSeq(text, i + 1, i + Len(t))
          /\ \A k \in 1..Len(text) :
                (k <= i \/ k > i + Len(t)) => text[k] = " "

\* the positions of the cached submissions of an assignment
Matches(subs, assignmentId) ==
    { i \in 1..Len(subs) : subs[i].assignment_id = assignmentId }

\* the first position of a non-empty set of positions
First(S) == CHOOSE i \in S : \A j \in S : i <= j

\* every assignment of the cached index
Cached ==
    UNION { { assignments[c][i] : i \in 1..Len(assignments[c]) } :
            c \in DOMAIN assignments }

-----------------------------------------------------------------------------
(* C1 *)

\* C1: when handleSubmit is invoked with no identity, no selected assignment
\* or an empty or white-space-only text buffer, it shows the validation error,
\* issues no request, and leaves the store, the cached lists, the selected
\* assignment and the text buffer as they are.
C1_InvalidSubmitIsRejected ==
    [][ ( /\ ~StoreStep
          /\ last'.op = "handleSubmit"
          /\ \/ user = NoUser
             \/ selectedAssignment = NoAssignment
             \/ Blank(submissionText) )
        => /\ last'.toast = "Please enter your submission"
           /\ inflight' = inflight
           /\ UNCHANGED <<dbAssignments, dbSubmissions, assignments, submissions,
                          selectedAssignment, submissionText>> ]_vars

\* a submit of a white-space-only buffer by a signed-in student was rejected
C1_Witness ==
    /\ last = Step("handleSubmit", "Please enter your submission", <<>>)
    /\ user # NoUser
    /\ selectedAssignment # NoAssignment
    /\ submissionText = << " " >>
    /\ inflight = EmptyBag

-----------------------------------------------------------------------------
(* C2 *)

\* C2 as stated: after a successful insert the dialog closes, the buffer is
\* cleared and both reads of the data loader are issued again.
C2_ReloadsBothLists ==
    [][ (~StoreStep /\ last'.op = "handleSubmit:ok")
        => /\ selectedAssignment' = NoAssignment
           /\ submissionText' = <<>>
           /\ \E r \in IssuedRequests : r.kind = "assignments"
           /\ \E r \in IssuedRequests : r.kind = "submissions" ]_vars

\* C2 (amended): after a successful insert the dialog closes, the buffer is
\* cleared, and exactly one request is issued: the read of the submissions of
\* the identity that invoked the submit.  The assignments are not read again
\* and neither cached list changes in that step.
C2_ReloadsSubmissionsOnly ==
    [][ (~StoreStep /\ last'.op = "handleSubmit:ok")
        => /\ selectedAssignment' = NoAssignment
           /\ submissionText' = <<>>
           /\ \E r \in HandledRequests :
                 /\ r.kind = "insert"
                 /\ inflight' = (inflight (-) SetToBag({r}))
                                  (+) SetToBag({ SubmissionsRequest(r.student) })
           /\ \A r \in IssuedRequests : r.kind = "submissions"
           /\ UNCHANGED <<assignments, submissions>> ]_vars

\* an insert succeeded: the dialog is closed, the buffer empty, and the only
\* request in flight is the read of the submissions
C2_Witness ==
    /\ last.op = "handleSubmit:ok"
    /\ last.toast = "Assignment submitted successfully!"
    /\ selectedAssignment = NoAssignment
    /\ submissionText = <<>>
    /\ inflight = SetToBag({ SubmissionsRequest(last.data[1].student_id) })

-----------------------------------------------------------------------------
(* C3 *)

\* C3: when the insert fails, handleSubmit shows the failure toast, leaves the
\* selected assignment, the text buffer and both cached lists as they are,
\* and issues no request: no re-fetch, no retry.
C3_FailedInsertKeepsDialog ==
    [][ (~StoreStep /\ last'.op = "handleSubmit:error")
        => /\ last'.toast = "Failed to submit assignment"
           /\ UNCHANGED <<selectedAssignment, submissionText, assignments,
                          submissions>>
           /\ IssuedRequests = {}
           /\ \E r \in HandledRequests :
                 /\ r.kind = "insert"
                 /\ inflight' = inflight (-) SetToBag({r}) ]_vars

\* an insert failed while the dialog was open with text in the buffer
C3_Witness ==
    /\ last.op = "handleSubmit:error"
    /\ last.toast = "Failed to submit assignment"
    /\ selectedAssignment # NoAssignment
    /\ ~Blank(submissionText)
    /\ inflight = EmptyBag

-----------------------------------------------------------------------------
(* C4 *)

\* C4 as stated: no read request is ever issued while the course list is
\* empty or the identity is absent.
C4_NoReadWithoutCoursesOrIdentity ==
    [][ \A r \in IssuedRequests :
            r.kind \in {"assignments", "submissions"}
            => Cardinality(courses') > 0 /\ user' # NoUser ]_vars

\* C4 (amended): a read of the assignments is only ever issued for the current,
\* non-empty course list with an identity present; a read of the submissions
\* is issued either together with it, for the current identity, or by
\* handleSubmit after a successful insert, for the identity that invoked the
\* submit, whatever the course list and the identity are by then.
C4_EffectReadsNeedCoursesAndIdentity ==
    [][ \A r \in IssuedRequests :
            /\ r.kind = "assignments"
               => /\ Cardinality(courses') > 0
                  /\ user' # NoUser
                  /\ r.courseIds = courses'
            /\ r.kind = "submissions"
               => /\ r.student # NoUser
                  /\ \/ Cardinality(courses') > 0 /\ user' = r.student
                     \/ /\ last'.op = "handleSubmit:ok"
                        /\ r.student = last'.data[1].student_id ]_vars

\* a successful submit has issued its read while the course list is empty
C4_Witness ==
    /\ last.op = "handleSubmit:ok"
    /\ courses = {}
    /\ \E r \in BagToSet(inflight) :
          r.kind = "submissions" /\ r.resp.state = "none"

-----------------------------------------------------------------------------
(* C5 *)

\* C5: for every cached assignment the offered actions follow from the first
\* cached submission that matches it: submit is offered iff none matches,
\* feedback iff that submission is "graded", neither with any other status,
\* and never both.
C5_OfferedActions ==
    \A a \in Cached :
        LET m == Matches(submissions, a.id) IN
        /\ OffersSubmit(a) <=> m = {}
        /\ OffersFeedback(a) <=> (m # {} /\ submissions[First(m)].status = "graded")
        /\ (m # {} /\ submissions[First(m)].status # "graded")
           => ~OffersSubmit(a) /\ ~OffersFeedback(a)
        /\ ~(OffersSubmit(a) /\ OffersFeedback(a))

\* the view shows an assignment without a submission, a graded one and one
\* whose status is neither "pending" nor "graded"
C5_Witness ==
    \E a, b, c \in Displayed :
        /\ OffersSubmit(a)
        /\ OffersFeedback(b)
        /\ getStatusBadge(getSubmission(c.id)) = "returned"
        /\ ~OffersSubmit(c) /\ ~OffersFeedback(c)

-----------------------------------------------------------------------------
(* C6 *)

\* C6 as stated, at the step that resolves the last request in flight after
\* a successful submit: the view then shows the assignment as "pending",
\* offers neither submit nor feedback for it, and counts it as completed.
C6_ShownPendingOnceReadsResolve ==
    [][ (~StoreStep /\ last.op = "handleSubmit:ok" /\ inflight' = EmptyBag)
        => LET a == last.data[1].assignment_id
               found == Find(submissions', a)
           IN  /\ getStatusBadge(found) = "Pending"
               /\ found # NoSubmission
               /\ found.status # "graded" ]_vars

\* C6 (amended): a submit of non-blank text sends one row with the selected
\* assignment, the invoking identity, the trimmed text and status "pending";
\* when it succeeds the store holds a row with that assignment, identity and
\* text; and when the re-fetch it issued then resolves successfully, as the
\* only request in flight, the cached list holds a submission of that
\* assignment, so that submit is no longer offered for it and it counts as
\* completed wherever it is listed; it is shown "pending" with no feedback
\* action unless the first cached submission of it has been graded.  (A
\* failed re-fetch empties the list instead: see C8.)
C6_SubmitStoresRowAndRefetchShowsIt ==
    /\ [][ ( /\ ~StoreStep
             /\ last'.op = "handleSubmit"
             /\ user # NoUser
             /\ selectedAssignment # NoAssignment
             /\ ~Blank(submissionText) )
           => /\ Cardinality(IssuedRequests) = 1
              /\ \A r \in IssuedRequests :
                    /\ r.kind = "insert"
                    /\ Len(r.row) = 1
                    /\ r.row[1].assignment_id = selectedAssignment.id
                    /\ r.row[1].student_id = user
                    /\ IsTrimOf(r.row[1].submission_text, submissionText)
                    /\ r.row[1].status = "pending" ]_vars
    /\ [][ (~StoreStep /\ last'.op = "handleSubmit:ok")
           => \E k \in 1..Len(dbSubmissions') :
                 /\ dbSubmissions'[k].assignment_id = last'.data[1].assignment_id
                 /\ dbSubmissions'[k].student_id = last'.data[1].student_id
                 /\ dbSubmissions'[k].submission_text
                       = last'.data[1].submission_text ]_vars
    /\ [][ ( /\ ~StoreStep
             /\ last.op = "handleSubmit:ok"
             /\ BagCardinality(inflight) = 1
             /\ last'.op = "fetchSubmissions:ok" )
           => LET a == last.data[1].assignment_id
                  found == Find(submissions', a)
              IN  /\ found # NoSubmission
                  /\ found.assignment_id = a
                  /\ found.student_id = last.data[1].student_id
                  /\ found.status = "pending"
                     => getStatusBadge(found) = "Pending"
                  /\ found.status \in {"pending", "graded"}
                  /\ \A c \in DOMAIN assignments' :
                        (\E i \in 1..Len(assignments'[c]) : assignments'[c][i].id = a)
                        => Len(SelectSeq(assignments'[c],
                               LAMBDA x : Find(submissions', x.id) # NoSubmission))
                              >= 1 ]_vars

\* the documented outcome: after the submit and its re-fetch the course shows
\* 1/1 submitted and the assignment is pending with no action
C6_Witness ==
    /\ last.op = "fetchSubmissions:ok"
    /\ inflight = EmptyBag
    /\ courses = {"c1"}
    /\ Len(dbSubmissions) = 1
    /\ dbSubmissions[1].submission_text = << "x" >>
    /\ getAssignmentCountForCourse("c1") = 1
    /\ getCompletedCountForCourse("c1") = 1
    /\ \A a \in Displayed :
          /\ getStatusBadge(getSubmission(a.id)) = "Pending"
          /\ ~OffersSubmit(a) /\ ~OffersFeedback(a)
    /\ Displayed # {}

-----------------------------------------------------------------------------
(* C7 *)

\* C7: after a successful fetch of the assignments, the keys of the index are
\* exactly the course ids of the rows received, each key holds exactly the
\* received rows of that course, each once, and each list ascends by
\* phase_number.
C7_IndexGroupsByCourse ==
    last.op = "fetchAssignments:ok"
    => LET data == last.data IN
       /\ DOMAIN assignments = { data[i].course_id : i \in 1..Len(data) }
       /\ \A c \in DOMAIN assignments :
             /\ \A i \in 1..Len(data) :
                   data[i].course_id = c
                   => Cardinality({ k \in 1..Len(assignments[c]) :
                                      assignments[c][k] = data[i] }) = 1
             /\ \A k \in 1..Len(assignments[c]) :
                   /\ assignments[c][k].course_id = c
                   /\ \E i \in 1..Len(data) : data[i] = assignments[c][k]
             /\ \A j, k \in 1..Len(assignments[c]) :
                   j < k => assignments[c][j].phase_number
                              <= assignments[c][k].phase_number

\* four rows of two courses were received, three of them of one course
C7_Witness ==
    /\ last.op = "fetchAssignments:ok"
    /\ Len(last.data) = Cardinality(PopulatedAssignments)
    /\ DOMAIN assignments = CourseIds
    /\ Len(assignments["c1"]) > Len(assignments["c2"])
    /\ Len(assignments["c2"]) > 0

-----------------------------------------------------------------------------
(* C8 *)

\* C8: a failed read shows no toast and issues no request; a failed read of
\* the assignments leaves both cached lists as they were, a failed read of
\* the submissions replaces the cached submissions by the empty list, so that
\* every cached assignment is shown as not submitted.
C8_FailedReadsAreSilent ==
    [][ ~StoreStep
        => /\ last'.op = "fetchAssignments:error"
              => /\ UNCHANGED <<assignments, submissions>>
                 /\ last'.toast = "none"
                 /\ IssuedRequests = {}
           /\ last'.op = "fetchSubmissions:error"
              => /\ submissions' = <<>>
                 /\ assignments' = assignments
                 /\ last'.toast = "none"
                 /\ IssuedRequests = {}
                 /\ \A a \in Cached :
                       getStatusBadge(Find(submissions', a.id)) = "Not submitted" ]_vars

\* a read of the submissions failed after one had been cached: the stored
\* submission of the displayed assignment is no longer shown
C8_Witness ==
    /\ last.op = "fetchSubmissions:error"
    /\ submissions = <<>>
    /\ \E a \in Displayed :
          /\ OffersSubmit(a)
          /\ \E k \in 1..Len(dbSubmissions) :
                /\ dbSubmissions[k].assignment_id = a.id
                /\ dbSubmissions[k].student_id = user

-----------------------------------------------------------------------------
(* C9 *)

\* C9: a submit of valid input issues its insert whatever is in flight or
\* stored, and of several cached submissions of one assignment the view uses
\* the first in list order.
C9_SubmitNeverDisabledFirstMatchShown ==
    /\ [][ ( /\ ~StoreStep
             /\ last'.op = "handleSubmit"
             /\ user # NoUser
             /\ selectedAssignment # NoAssignment
             /\ ~Blank(submissionText) )
           => \E r \in IssuedRequests :
                 /\ r.kind = "insert"
                 /\ r.student = user
                 /\ r.row[1].assignment_id = selectedAssignment.id ]_vars
    /\ [](\A a \in Cached :
            LET m == Matches(submissions, a.id) IN
            m # {} => getSubmission(a.id) = submissions[First(m)])

\* the store holds two rows of one student for one assignment, both are
\* cached, they differ in status, and the view shows the first
C9_Witness ==
    /\ Len(dbSubmissions) = 2
    /\ dbSubmissions[1].assignment_id = dbSubmissions[2].assignment_id
    /\ dbSubmissions[1].student_id = dbSubmissions[2].student_id
    /\ Len(submissions) = 2
    /\ submissions[1].assignment_id = submissions[2].assignment_id
    /\ submissions[1].status # submissions[2].status
    /\ \E a \in Displayed :
          /\ a.id = submissions[1].assignment_id
          /\ getStatusBadge(getSubmission(a.id)) = "Pending"
          /\ submissions[2].status = "graded"

-----------------------------------------------------------------------------
(* C10 *)

\* C10: a request leaves the bag only when its own response is handled, one
\* per step, never because a newer one was issued; and the response of a read
\* is applied whatever the course list and identity are by then: the index
\* holds exactly the rows received, the cached submissions are the rows
\* received.
C10_LastResponseWins ==
    [][ ~StoreStep
        => /\ BagCardinality(inflight (-) inflight') <= 1
           /\ \A r \in HandledRequests :
                 /\ r.kind = "assignments"
                    => /\ last'.op \in {"fetchAssignments:ok",
                                        "fetchAssignments:error"}
                       /\ last'.op = "fetchAssignments:ok"
                          => /\ \A i \in 1..Len(last'.data) :
                                   last'.data[i].course_id \in r.courseIds
                             /\ UNION { { assignments'[c][i] :
                                          i \in 1..Len(assignments'[c]) } :
                                        c \in DOMAIN assignments' }
                                  = { last'.data[i] : i \in 1..Len(last'.data) }
                 /\ r.kind = "submissions"
                    => /\ last'.op = "fetchSubmissions:" \o r.resp.state
                       /\ r.resp.state \in {"ok", "error"}
                       /\ r.resp.state = "ok" => submissions' = r.resp.data
                 /\ r.kind = "insert"
                    => /\ last'.op = "handleSubmit:" \o r.resp.state
                       /\ r.resp.state \in {"ok", "error"} ]_vars

\* every request has resolved, and the index holds the rows of a course that
\* is not in the current course list: the response to the superseded request
\* arrived after the response to the current one
C10_Witness ==
    /\ inflight = EmptyBag
    /\ Cardinality(courses) > 0
    /\ user # NoUser
    /\ last.op = "fetchAssignments:ok"
    /\ Len(last.data) > 0
    /\ \A i \in 1..Len(last.data) : last.data[i].course_id \notin courses
    /\ DOMAIN assignments = { last.data[i].course_id : i \in 1..Len(last.data) }

====
